---- MODULE Spec2Model ----
(***************************************************************************)
(* Model of the product service of api/v1/services/products.go: the five   *)
(* service functions GetProducts, GetProduct, CreateProduct, UpdateProduct *)
(* and DeleteProduct, run by callers against one shared products table.    *)
(* UpdateProduct and DeleteProduct are two storage calls each (FindProduct *)
(* and then the write), so each is two steps of its caller and calls of    *)
(* other callers may fall between the two.                                 *)
(***************************************************************************)
EXTENDS Integers, Sequences, FiniteSets, TLC

\* The number of rows the table's id sequence hands out in a run.
MaxId == 2

\* fiber.StatusNotFound, fiber.StatusBadRequest, fiber.StatusInternalServerError,
\* and the nil *T.ServiceError of a successful return.
StatusNotFound == 404
StatusBadRequest == 400
StatusInternalServerError == 500
NoError == 0

Callers == {"c1", "c2"}
Ids == 1 .. MaxId

\* type ProductBody struct { Name string; Description string; Price int }
\* The bodies the callers send: two valid ones that differ in every field (an
\* empty description and the price 0 among them) and one of negative price.
ProductBody ==
    { [Name |-> "Widget", Description |-> "", Price |-> 10],
      [Name |-> "Widget2", Description |-> "d", Price |-> 0],
      [Name |-> "Widget2", Description |-> "", Price |-> -1] }

\* The body argument of the calls that take none.
NoBody == [Name |-> "", Description |-> "", Price |-> 0]

-----------------------------------------------------------------------------
(* strconv.Itoa, decimal.NewFromString, Decimal.String, types.Decimal.Scan  *)
(* A numeric string is a sequence of one-character strings.                *)

DigitChar(d) ==
    CASE d = 0 -> "0" [] d = 1 -> "1" [] d = 2 -> "2" [] d = 3 -> "3"
      [] d = 4 -> "4" [] d = 5 -> "5" [] d = 6 -> "6" [] d = 7 -> "7"
      [] d = 8 -> "8" [] d = 9 -> "9"

DigitValue(ch) ==
    CASE ch = "0" -> 0 [] ch = "1" -> 1 [] ch = "2" -> 2 [] ch = "3" -> 3
      [] ch = "4" -> 4 [] ch = "5" -> 5 [] ch = "6" -> 6 [] ch = "7" -> 7
      [] ch = "8" -> 8 [] ch = "9" -> 9 [] OTHER -> -1

RECURSIVE FormatUint(_)
FormatUint(n) ==
    IF n < 10 THEN <<DigitChar(n)>>
    ELSE Append(FormatUint(n \div 10), DigitChar(n % 10))

\* strconv.Itoa(body.Price)
Itoa(n) == IF n < 0 THEN <<"-">> \o FormatUint(-n) ELSE FormatUint(n)

RECURSIVE ParseUint(_, _)
ParseUint(s, acc) ==
    IF s = <<>> THEN acc
    ELSE ParseUint(Tail(s), acc * 10 + DigitValue(Head(s)))

\* The parse of an integer literal: an optional sign, then one or more digits.
\* err is TRUE for anything else; on success the exponent is 0.
ParseNumber(s) ==
    LET signed == Len(s) > 0 /\ Head(s) \in {"-", "+"}
        digits == IF signed THEN Tail(s) ELSE s
        bad == digits = <<>> \/ \E i \in 1 .. Len(digits) : DigitValue(digits[i]) < 0
        abs == IF bad THEN 0 ELSE ParseUint(digits, 0)
    IN  [err |-> bad,
         value |-> IF signed /\ Head(s) = "-" THEN -abs ELSE abs,
         exp |-> 0]

\* dec, err := decimal.NewFromString(...)
NewFromString(s) == ParseNumber(s)

\* dec.String(), for the exponent 0 NewFromString gives an integer literal
DecimalString(dec) == Itoa(dec.value)

\* price.Scan(dec.String())
DecimalScan(s) == ParseNumber(s)

\* The zero value of types.Decimal (var price types.Decimal)
ZeroDecimal == [value |-> 0, exp |-> 0]

\* The integer a stored decimal stands for.
RECURSIVE Pow10(_)
Pow10(e) == IF e = 0 THEN 1 ELSE 10 * Pow10(e - 1)
DecimalInt(d) == d.value * Pow10(d.exp)

-----------------------------------------------------------------------------
VARIABLES
    products,   \* the rows of the products table
    nextId,     \* the next value of the table's id sequence
    pc,         \* pc[c]: where caller c is in its call
    inv,        \* inv[c]: the arguments and locals of caller c's call in progress
    deleted,    \* the ids for which a DeleteProduct has returned success
    ret         \* the return of the call that the last step finished, if any

vars == <<products, nextId, pc, inv, deleted, ret>>

-----------------------------------------------------------------------------
(* The generated models package (M.Products, M.FindProduct, Insert, Update, *)
(* Delete) as the storage port the service calls.  A call that fails       *)
(* (fault: the connection is lost, the context is cancelled, ...) changes  *)
(* no row.                                                                 *)

\* The zero value of M.Product.
ZeroProduct ==
    [ID |-> 0, Name |-> "", Description |-> [String |-> "", Valid |-> FALSE],
     Price |-> ZeroDecimal]

\* M.Products().All(ctx, dbTrx)
AllProducts(fault) ==
    IF fault THEN [err |-> "failure", rows |-> {}]
    ELSE [err |-> "nil", rows |-> products]

\* M.FindProduct(ctx, dbTrx, id): the row whose primary key is id, or
\* sql.ErrNoRows when there is none
FindProduct(id, fault) ==
    LET rows == {r \in products : r.ID = id}
    IN  IF fault THEN [err |-> "failure", rows |-> {}]
        ELSE IF rows = {} THEN [err |-> "sql.ErrNoRows", rows |-> {}]
        ELSE [err |-> "nil", rows |-> rows]

\* product.Insert(ctx, dbTrx, boil.Infer()): the zero ID is left to the
\* table's sequence and the assigned id is read back into the product
InsertProduct(product, fault) ==
    LET row == [product EXCEPT !.ID = nextId]
    IN  IF fault THEN [err |-> "failure", product |-> product, table |-> products, seq |-> nextId]
        ELSE [err |-> "nil", product |-> row, table |-> products \cup {row}, seq |-> nextId + 1]

\* product.Update(ctx, dbTrx, boil.Infer()): UPDATE ... WHERE id = product.ID;
\* no row matching is no error, the count of rows is 0
UpdateRow(product, fault) ==
    LET hit == {r \in products : r.ID = product.ID}
    IN  IF fault THEN [err |-> "failure", rowsAff |-> 0, table |-> products]
        ELSE [err |-> "nil", rowsAff |-> Cardinality(hit),
              table |-> (products \ hit) \cup {product : r \in hit}]

\* product.Delete(ctx, dbTrx): DELETE ... WHERE id = product.ID
DeleteRow(product, fault) ==
    LET hit == {r \in products : r.ID = product.ID}
    IN  IF fault THEN [err |-> "failure", rowsAff |-> 0, table |-> products]
        ELSE [err |-> "nil", rowsAff |-> Cardinality(hit), table |-> products \ hit]

-----------------------------------------------------------------------------
(* The service functions.                                                  *)

\* Faulty variants of the price check: the bound off by one, the check left out.
PriceInvalid_OffByOne(body) == body.Price < -1

PriceInvalid_Unchecked(body) == FALSE

\* if body.Price < 0
PriceInvalid(body) == body.Price < 0

\* Faulty variants of the lookup's status: the comparison inverted, no 404 at all.
LookupStatus_Inverted(err) ==
    IF err # "sql.ErrNoRows" THEN StatusNotFound ELSE StatusInternalServerError

LookupStatus_AlwaysInternal(err) == StatusInternalServerError

\* The status of a failed FindProduct: if err == sql.ErrNoRows { 404 } else 500
LookupStatus(err) ==
    IF err = "sql.ErrNoRows" THEN StatusNotFound ELSE StatusInternalServerError

\* Faulty variant: the description always marked present.
NullStringOf_AlwaysValid(s) == [String |-> s, Valid |-> TRUE]

\* null.String{String: body.Description, Valid: body.Description != ""}
NullStringOf(s) == [String |-> s, Valid |-> s # ""]

\* The price check and the conversion int -> decimal.Decimal -> types.Decimal
\* that CreateProduct and UpdateProduct both make before they write.
ValidatePrice(body) ==
    IF PriceInvalid(body)
    THEN [code |-> StatusBadRequest, price |-> ZeroDecimal]
    ELSE LET dec == NewFromString(Itoa(body.Price))
         IN  IF dec.err
             THEN [code |-> StatusBadRequest, price |-> ZeroDecimal]
             ELSE LET price == DecimalScan(DecimalString(dec))
                  IN  IF price.err
                      THEN [code |-> StatusInternalServerError, price |-> ZeroDecimal]
                      ELSE [code |-> NoError,
                            price |-> [value |-> price.value, exp |-> price.exp]]

\* Faulty variant: the description left out of the new product.
NewProduct_NoDescription(body, price) ==
    [ZeroProduct EXCEPT !.Name = body.Name, !.Price = price]

\* product := M.Product{Name: ..., Description: ..., Price: price}
NewProduct(body, price) ==
    [ZeroProduct EXCEPT !.Name = body.Name,
                        !.Description = NullStringOf(body.Description),
                        !.Price = price]

\* Faulty variant: the name left as the lookup found it.
AssignBody_KeepsName(product, body, price) ==
    [product EXCEPT !.Description =
                        [String |-> body.Description, Valid |-> body.Description # ""],
                    !.Price = price]

\* product.Name = ...; product.Description = ...; product.Price = price
AssignBody(product, body, price) ==
    [product EXCEPT !.Name = body.Name,
                    !.Description = NullStringOf(body.Description),
                    !.Price = price]

\* What a call returns: the entity or entities, and the error's code. calls
\* counts the storage calls the call made, fault says one of them failed.
Return(op, id, body, code, entities, calls, fault) ==
    [op |-> op, id |-> id, body |-> body, code |-> code, entities |-> entities,
     calls |-> calls, fault |-> fault]

NoReturn == Return("none", 0, NoBody, NoError, {}, 0, FALSE)

IdleInv == [id |-> 0, body |-> NoBody, product |-> ZeroProduct, calls |-> 0]

\* The shape of the state: the rows are M.Product values with distinct ids
\* below the sequence, a caller between its two storage calls holds the
\* product its lookup found.
TypeOK ==
    /\ \A p \in products : p.ID \in 1 .. (nextId - 1)
    /\ \A p, q \in products : p.ID = q.ID => p = q
    /\ nextId \in 1 .. (MaxId + 1)
    /\ pc \in [Callers -> {"idle", "update_found", "delete_found"}]
    /\ \A c \in Callers :
          IF pc[c] = "idle" THEN inv[c] = IdleInv
          ELSE inv[c].calls = 1 /\ inv[c].product.ID = inv[c].id /\ inv[c].id \in Ids
    /\ deleted \subseteq 1 .. (nextId - 1)
    /\ ret.op \in {"none", "GetProducts", "GetProduct", "CreateProduct",
                    "UpdateProduct", "DeleteProduct"}

Init ==
    /\ products = {}
    /\ nextId = 1
    /\ pc = [c \in Callers |-> "idle"]
    /\ inv = [c \in Callers |-> IdleInv]
    /\ deleted = {}
    /\ ret = NoReturn

GetProducts(c, fault) ==
    /\ pc[c] = "idle"
    /\ LET r == AllProducts(fault)
       IN  ret' = IF r.err # "nil"
                  THEN Return("GetProducts", 0, NoBody, StatusInternalServerError, {}, 1, fault)
                  ELSE Return("GetProducts", 0, NoBody, NoError, r.rows, 1, fault)
    /\ UNCHANGED <<products, nextId, pc, inv, deleted>>

\* Faulty variant: a lookup that fails is made a second time.
GetProduct_Retry(c, id, fault) ==
    /\ pc[c] = "idle"
    /\ LET r == FindProduct(id, fault)
       IN  ret' = IF r.err # "nil"
                  THEN Return("GetProduct", id, NoBody, LookupStatus(FindProduct(id, fault).err),
                              {}, 2, fault)
                  ELSE Return("GetProduct", id, NoBody, NoError, r.rows, 1, fault)
    /\ UNCHANGED <<products, nextId, pc, inv, deleted>>

GetProduct(c, id, fault) ==
    /\ pc[c] = "idle"
    /\ LET r == FindProduct(id, fault)
       IN  ret' = IF r.err # "nil"
                  THEN Return("GetProduct", id, NoBody, LookupStatus(r.err), {}, 1, fault)
                  ELSE Return("GetProduct", id, NoBody, NoError, r.rows, 1, fault)
    /\ UNCHANGED <<products, nextId, pc, inv, deleted>>

CreateProduct(c, body, fault) ==
    /\ pc[c] = "idle"
    /\ LET v == ValidatePrice(body)
           r == InsertProduct(NewProduct(body, v.price), fault)
       IN  IF v.code # NoError
           THEN /\ ret' = Return("CreateProduct", 0, body, v.code, {}, 0, FALSE)
                /\ UNCHANGED <<products, nextId>>
           ELSE IF r.err # "nil"
           THEN /\ ret' = Return("CreateProduct", 0, body, StatusInternalServerError, {}, 1, fault)
                /\ UNCHANGED <<products, nextId>>
           ELSE /\ nextId <= MaxId
                /\ products' = r.table
                /\ nextId' = r.seq
                /\ ret' = Return("CreateProduct", 0, body, NoError, {r.product}, 1, fault)
    /\ UNCHANGED <<pc, inv, deleted>>

\* UpdateProduct up to the return of M.FindProduct
UpdateProductFind(c, id, body, fault) ==
    /\ pc[c] = "idle"
    /\ LET r == FindProduct(id, fault)
       IN  IF r.err # "nil"
           THEN /\ ret' = Return("UpdateProduct", id, body, LookupStatus(r.err), {}, 1, fault)
                /\ UNCHANGED <<pc, inv>>
           ELSE /\ pc' = [pc EXCEPT ![c] = "update_found"]
                /\ inv' = [inv EXCEPT ![c] =
                              [id |-> id, body |-> body,
                               product |-> CHOOSE p \in r.rows : TRUE, calls |-> 1]]
                /\ ret' = NoReturn
    /\ UNCHANGED <<products, nextId, deleted>>

\* Faulty variant: the write is an upsert, which inserts the row when none matches.
UpdateProductWrite_Upsert(c, fault) ==
    /\ pc[c] = "update_found"
    /\ LET id == inv[c].id
           body == inv[c].body
           v == ValidatePrice(body)
           product == AssignBody(inv[c].product, body, v.price)
       IN  IF v.code # NoError
           THEN /\ ret' = Return("UpdateProduct", id, body, v.code, {}, inv[c].calls, FALSE)
                /\ UNCHANGED products
           ELSE IF fault
           THEN /\ ret' = Return("UpdateProduct", id, body, StatusInternalServerError, {},
                                 inv[c].calls + 1, fault)
                /\ UNCHANGED products
           ELSE /\ products' = {p \in products : p.ID # product.ID} \cup {product}
                /\ ret' = Return("UpdateProduct", id, body, NoError, {product},
                                 inv[c].calls + 1, fault)
    /\ pc' = [pc EXCEPT ![c] = "idle"]
    /\ inv' = [inv EXCEPT ![c] = IdleInv]
    /\ UNCHANGED <<nextId, deleted>>

\* UpdateProduct from the price check to its return
UpdateProductWrite(c, fault) ==
    /\ pc[c] = "update_found"
    /\ LET id == inv[c].id
           body == inv[c].body
           v == ValidatePrice(body)
           product == AssignBody(inv[c].product, body, v.price)
           r == UpdateRow(product, fault)
       IN  IF v.code # NoError
           THEN /\ ret' = Return("UpdateProduct", id, body, v.code, {}, inv[c].calls, FALSE)
                /\ UNCHANGED products
           ELSE IF r.err # "nil"
           THEN /\ ret' = Return("UpdateProduct", id, body, StatusInternalServerError, {},
                                 inv[c].calls + 1, fault)
                /\ UNCHANGED products
           ELSE /\ products' = r.table
                /\ ret' = Return("UpdateProduct", id, body, NoError, {product},
                                 inv[c].calls + 1, fault)
    /\ pc' = [pc EXCEPT ![c] = "idle"]
    /\ inv' = [inv EXCEPT ![c] = IdleInv]
    /\ UNCHANGED <<nextId, deleted>>

\* DeleteProduct up to the return of M.FindProduct
DeleteProductFind(c, id, fault) ==
    /\ pc[c] = "idle"
    /\ LET r == FindProduct(id, fault)
       IN  IF r.err # "nil"
           THEN /\ ret' = Return("DeleteProduct", id, NoBody, LookupStatus(r.err), {}, 1, fault)
                /\ UNCHANGED <<pc, inv>>
           ELSE /\ pc' = [pc EXCEPT ![c] = "delete_found"]
                /\ inv' = [inv EXCEPT ![c] =
                              [id |-> id, body |-> NoBody,
                               product |-> CHOOSE p \in r.rows : TRUE, calls |-> 1]]
                /\ ret' = NoReturn
    /\ UNCHANGED <<products, nextId, deleted>>

\* Faulty variant: success is returned without the call of product.Delete.
DeleteProductWrite_NoDelete(c, fault) ==
    /\ pc[c] = "delete_found"
    /\ ret' = Return("DeleteProduct", inv[c].id, NoBody, NoError, {}, inv[c].calls + 1, FALSE)
    /\ deleted' = deleted \cup {inv[c].id}
    /\ pc' = [pc EXCEPT ![c] = "idle"]
    /\ inv' = [inv EXCEPT ![c] = IdleInv]
    /\ UNCHANGED <<products, nextId>>

\* DeleteProduct from product.Delete to its return
DeleteProductWrite(c, fault) ==
    /\ pc[c] = "delete_found"
    /\ LET id == inv[c].id
           r == DeleteRow(inv[c].product, fault)
       IN  IF r.err # "nil"
           THEN /\ ret' = Return("DeleteProduct", id, NoBody, StatusInternalServerError, {},
                                 inv[c].calls + 1, fault)
                /\ UNCHANGED <<products, deleted>>
           ELSE /\ products' = r.table
                /\ deleted' = deleted \cup {id}
                /\ ret' = Return("DeleteProduct", id, NoBody, NoError, {},
                                 inv[c].calls + 1, fault)
    /\ pc' = [pc EXCEPT ![c] = "idle"]
    /\ inv' = [inv EXCEPT ![c] = IdleInv]
    /\ UNCHANGED nextId

\* One step of caller c.
Step(c) ==
    \/ \E fault \in BOOLEAN : GetProducts(c, fault)
    \/ \E id \in Ids, fault \in BOOLEAN : GetProduct(c, id, fault)
    \/ \E body \in ProductBody, fault \in BOOLEAN : CreateProduct(c, body, fault)
    \/ \E id \in Ids, body \in ProductBody, fault \in BOOLEAN : UpdateProductFind(c, id, body, fault)
    \/ \E fault \in BOOLEAN : UpdateProductWrite(c, fault)
    \/ \E id \in Ids, fault \in BOOLEAN : DeleteProductFind(c, id, fault)
    \/ \E fault \in BOOLEAN : DeleteProductWrite(c, fault)

\* One caller: every call returns before the next begins.
Next == Step("c1")

Spec == Init /\ [][Next]_vars

\* Several callers sharing the executor: their storage calls interleave.
ConcNext == \E c \in Callers : Step(c)

ConcSpec == Init /\ [][ConcNext]_vars

-----------------------------------------------------------------------------
(* Vocabulary of the properties.                                           *)

\* The ids of the rows of a table.
RowIds(table) == {p.ID : p \in table}

\* Entity e carries exactly the name, description and price of body; an
\* absent description reads as the empty text.
SameFields(e, body) ==
    /\ e.Name = body.Name
    /\ (IF e.Description.Valid THEN e.Description.String ELSE "") = body.Description
    /\ DecimalInt(e.Price) = body.Price

\* The step is the second half of an UpdateProduct or DeleteProduct: its
\* caller had found the row and now returns.
WriteStep == \E c \in Callers : pc[c] # "idle" /\ pc'[c] = "idle"

\* The step is a call that returns from an idle caller (for UpdateProduct and
\* DeleteProduct: out of the failed lookup).
FirstStep == pc' = pc

Failed(r) == r.code # NoError

-----------------------------------------------------------------------------
\* C1 (as amended): a body of negative price never changes the table, and
\* CreateProduct answers it with 400; UpdateProduct answers it with 400 when
\* its lookup has found the row, with 404 when the id has no row and with 500
\* when the lookup itself fails.
C1_NegativePriceRejected ==
    [][ (ret'.op \in {"CreateProduct", "UpdateProduct"} /\ ret'.body.Price < 0) =>
          /\ products' = products
          /\ ret'.entities = {}
          /\ ret'.op = "CreateProduct" => ret'.code = StatusBadRequest
          /\ (ret'.op = "UpdateProduct" /\ WriteStep) => ret'.code = StatusBadRequest
          /\ (ret'.op = "UpdateProduct" /\ ~WriteStep) =>
                IF ret'.fault THEN ret'.code = StatusInternalServerError
                ELSE ret'.code = StatusNotFound /\ ret'.id \notin RowIds(products)
      ]_vars

\* C1 witness: an UpdateProduct of an existing row with a negative price was
\* answered 400.
C1_Witness ==
    /\ ret.op = "UpdateProduct"
    /\ ret.body.Price < 0
    /\ ret.code = StatusBadRequest
    /\ ret.id \in RowIds(products)

\* C1 as stated: whatever the id and the table, a negative price is answered
\* 400 by CreateProduct and UpdateProduct (no storage call failing).
C1_Original ==
    (ret.op \in {"CreateProduct", "UpdateProduct"} /\ ret.body.Price < 0 /\ ~ret.fault)
        => ret.code = StatusBadRequest

\* C2: GetProduct, UpdateProduct (whatever the body) and DeleteProduct of an id
\* that has no row, the lookup being answered by the storage, return 404 and
\* leave the table as it was.
C2_AbsentIdNotFound ==
    [][ ( /\ ret'.op \in {"GetProduct", "UpdateProduct", "DeleteProduct"}
          /\ FirstStep
          /\ ~ret'.fault
          /\ ret'.id \notin RowIds(products) ) =>
          /\ ret'.code = StatusNotFound
          /\ ret'.entities = {}
          /\ products' = products
      ]_vars

\* C2 witness: a DeleteProduct of an id deleted before was answered 404.
C2_Witness ==
    /\ ret.op = "DeleteProduct"
    /\ ret.code = StatusNotFound
    /\ ret.id \in deleted

\* C3: every row of the table has a price >= 0.
C3_PriceNeverNegative == \A p \in products : DecimalInt(p.Price) >= 0

\* C3 witness: a CreateProduct of negative price has just returned and the
\* table holds a row of price 0.
C3_Witness ==
    /\ ret.op = "CreateProduct"
    /\ ret.body.Price < 0
    /\ \E p \in products : DecimalInt(p.Price) = 0

\* C4: no row has a description that is present and empty, and a successful
\* CreateProduct or UpdateProduct with an empty description returns (and
\* stores) the description absent.
C4_DescriptionAbsentOrText ==
    /\ \A p \in products : p.Description.Valid => p.Description.String # ""
    /\ (ret.op \in {"CreateProduct", "UpdateProduct"} /\ ~Failed(ret)) =>
          \A e \in ret.entities :
              /\ e.Description.Valid => e.Description.String # ""
              /\ ret.body.Description = "" => ~e.Description.Valid

\* C4 witness: an UpdateProduct with an empty description has overwritten a
\* row, which now has no description.
C4_Witness ==
    /\ ret.op = "UpdateProduct"
    /\ ~Failed(ret)
    /\ ret.body.Description = ""
    /\ \E e \in ret.entities : e \in products /\ ~e.Description.Valid

\* C5: once a DeleteProduct(id) has returned success, no row has that id and
\* every GetProduct(id) the storage answers returns 404.
C5_DeletedStaysDeleted ==
    /\ \A p \in products : p.ID \notin deleted
    /\ (ret.op = "GetProduct" /\ ret.id \in deleted /\ ~ret.fault) =>
          ret.code = StatusNotFound /\ ret.entities = {}

\* C5 witness: a GetProduct of a deleted id returned 404 after a later
\* CreateProduct had made another row.
C5_Witness ==
    /\ ret.op = "GetProduct"
    /\ ret.id \in deleted
    /\ ret.code = StatusNotFound
    /\ \E p \in products : p.ID > ret.id

\* C6: a successful CreateProduct returns one entity, stored, with the body's
\* name, description and price and an id no row had before; a GetProduct of
\* that id as the next call returns the same.
C6_CreateThenGet ==
    [][ /\ (ret'.op = "CreateProduct" /\ ~Failed(ret')) =>
              /\ ret'.body.Price >= 0
              /\ \E e \in products' :
                    /\ ret'.entities = {e}
                    /\ SameFields(e, ret'.body)
                    /\ e.ID \notin RowIds(products)
                    /\ products' = products \cup {e}
        /\ ( /\ ret.op = "CreateProduct" /\ ~Failed(ret)
             /\ ret'.op = "GetProduct" /\ ~ret'.fault
             /\ ret'.id \in RowIds(ret.entities) ) =>
              /\ ~Failed(ret')
              /\ ret'.entities = ret.entities
              /\ \A e \in ret'.entities : SameFields(e, ret.body)
      ]_vars

\* C6 witness: the second CreateProduct to succeed, with an empty description.
C6_Witness ==
    /\ ret.op = "CreateProduct"
    /\ ~Failed(ret)
    /\ ret.body.Description = ""
    /\ Cardinality(products) = 2

C8_OneClassification ==
    [][ ret'.op # "none" =>
          /\ ret'.code \in {NoError, StatusBadRequest, StatusNotFound, StatusInternalServerError}
          /\ ret'.fault <=> ret'.code = StatusInternalServerError
          /\ ret'.code = StatusNotFound =>
                /\ ret'.op \in {"GetProduct", "UpdateProduct", "DeleteProduct"}
                /\ ret'.id \notin RowIds(products)
          /\ Failed(ret') => (products' = products /\ nextId' = nextId /\ ret'.entities = {})
      ]_vars

\* C8 witness: the write of an UpdateProduct failed in the storage and the
\* call returned 500.
C8_Witness ==
    /\ ret.op = "UpdateProduct"
    /\ ret.code = StatusInternalServerError
    /\ ret.calls = 2
    /\ ret.id \in RowIds(products)

\* C9 (as amended): GetProducts and GetProduct make one storage call;
\* CreateProduct makes one, or none when it rejects the price; UpdateProduct
\* and DeleteProduct make the lookup and, when it finds the row (and, for
\* UpdateProduct, the price is accepted), a second call, the write.
C9_StorageCalls ==
    [][ /\ ret'.op \in {"GetProducts", "GetProduct"} => ret'.calls = 1
        /\ ret'.op = "CreateProduct" =>
              ret'.calls = (IF ret'.body.Price < 0 THEN 0 ELSE 1)
        /\ ret'.op = "UpdateProduct" =>
              ret'.calls = (IF WriteStep /\ ret'.body.Price >= 0 THEN 2 ELSE 1)
        /\ ret'.op = "DeleteProduct" =>
              ret'.calls = (IF WriteStep THEN 2 ELSE 1)
        /\ (ret'.op \in {"UpdateProduct", "DeleteProduct"} /\ ~Failed(ret')) => ret'.calls = 2
      ]_vars

\* C9 witness: a DeleteProduct has succeeded, with its two storage calls.
C9_Witness ==
    /\ ret.op = "DeleteProduct"
    /\ ~Failed(ret)
    /\ ret.calls = 2

\* C9 as stated: every call makes exactly one storage call.
C9_Original == ret.op # "none" => ret.calls = 1

\* C10 (as amended): the write of an UpdateProduct neither makes nor removes
\* a row; when UpdateProduct returns success, either the row of that id holds
\* the returned entity, or a DeleteProduct of that id has succeeded since the
\* lookup and the id has no row.
C10_UpdateNeverRecreates ==
    [][ ret'.op = "UpdateProduct" =>
          /\ RowIds(products') = RowIds(products)
          /\ ~Failed(ret') =>
                \/ ret'.entities \subseteq products' /\ ret'.id \in RowIds(products')
                \/ ret'.id \in deleted /\ ret'.id \notin RowIds(products')
      ]_vars

\* C10 witness: an UpdateProduct has returned success for an id whose row a
\* DeleteProduct removed between its lookup and its write.
C10_Witness ==
    /\ ret.op = "UpdateProduct"
    /\ ~Failed(ret)
    /\ ret.id \in deleted
    /\ ret.id \notin RowIds(products)

\* C10 as stated: when UpdateProduct returns success, a row of that id is in
\* the table.
C10_Original ==
    (ret.op = "UpdateProduct" /\ ~Failed(ret)) => ret.id \in RowIds(products)
====
